---- MODULE Spec2Model ----
(***************************************************************************)
(* A model of useResource (src/src/js/index.ts): one binding instance, its *)
(* React state (state, loading, eventOverride), the initial-fetch effect,  *)
(* the store / update / destroy operations and the three socket            *)
(* subscriptions.                                                          *)
(*                                                                         *)
(* JavaScript values are written as strings.  An object is a function      *)
(* from Fields to strings; a key that the object does not own is Absent,   *)
(* a key it owns with the value undefined is Undefined.  The number 0 is   *)
(* Zero and the empty string is EmptyStr, the two falsy ids.               *)
(*                                                                         *)
(* setState(updater) is modelled by its effect on the logical state: React *)
(* runs queued updaters in the order they were queued, so the value after  *)
(* a step is the updater applied to the value before it.  An updater that  *)
(* throws (a TypeError on null.map, null.find, Object.assign(null, ..))    *)
(* fails the render; the binding is torn down and the model stops (threw). *)
(*                                                                         *)
(* The reducer options onCreated, onUpdated, onDestroyed are left unset in *)
(* Init: the behaviours are those of the default merge policy.             *)
(***************************************************************************)
EXTENDS Naturals, Sequences, FiniteSets

\* ------------------------------------------------------------------ bounds
\* how many times the outside world acts on the binding: runs of the fetch
\* effect, calls of store / update / destroy, and events delivered
MaxInputs == 2

\* ------------------------------------------------------------- JS values
Undefined == "undefined"
Null == "null"
Absent == "absent"
Zero == "0"
EmptyStr == ""

Fields == {"id", "name", "age"}
Ids == {"1", "2"}
UpdateMethods == {"on-success", "immediate", "local-only"}

\* !v is false
Truthy(v) == v \notin {Undefined, Null, Zero, EmptyStr, Absent}

\* value ?? fallback
Coalesce(v, fallback) == IF v \in {Undefined, Null, Absent} THEN fallback ELSE v

\* o.f : reading a key the object does not own yields undefined
Get(o, f) == IF o[f] = Absent THEN Undefined ELSE o[f]

Obj(i, n, a) == [f \in Fields |-> IF f = "id" THEN i ELSE IF f = "name" THEN n ELSE a]
NoObj == Obj(Absent, Absent, Absent)

\* ------------------------------------------------------------ util.filter
filter(input) == [f \in Fields |-> IF input[f] = Undefined THEN Absent ELSE input[f]]

\* Object.assign(target, source): every own key of source overwrites target
ObjectAssign_Replace(target, source) == source

ObjectAssign(target, source) ==
    [f \in Fields |-> IF source[f] # Absent THEN source[f] ELSE target[f]]

\* { id, ...update }
SpreadWithId(i, update) ==
    [f \in Fields |-> IF update[f] # Absent THEN update[f]
                      ELSE IF f = "id" THEN i ELSE Absent]

\* ----------------------------------------------------- transform pipeline
\* The default transformer is the identity.  The custom pair is a mapper
\* that builds a fresh object with every key written out
\* (item => ({id: item.id, name: up(item.name), age: item.age})): the name
\* is upper-cased on the way in and lower-cased on the way out, and a key
\* missing from a partial input comes out as an own key holding undefined.
Up(v) == IF v = "a" THEN "A" ELSE IF v = "b" THEN "B" ELSE v
Down(v) == IF v = "A" THEN "a" ELSE IF v = "B" THEN "b" ELSE v

transformer(kind, item) ==
    IF kind = "default" THEN item
    ELSE [f \in Fields |-> IF f = "name" THEN Up(Get(item, f)) ELSE Get(item, f)]

inverseTransformer(kind, item) ==
    IF kind = "default" THEN item
    ELSE [f \in Fields |-> IF f = "name" THEN Down(Get(item, f)) ELSE Get(item, f)]

\* ------------------------------------------------------------------ state
VARIABLES
    id,                  \* option id: Undefined when the option is absent
    transformerKind,     \* "default" or "custom" (transformer / inverseTransformer)
    defaultUpdateMethod, \* option defaultUpdateMethod
    onCreated,           \* option onCreated (Undefined: not given)
    onUpdated,           \* option onUpdated
    onDestroyed,         \* option onDestroyed
    state,               \* useState: [kind, ent, arr]
    loading,             \* useState(true)
    eventOverride,       \* useState(null)
    fetches,             \* the initial fetches started so far: [n, pc, header, data]
    ops,                 \* store / update / destroy calls in flight
    events,              \* created / updated events awaiting their transformer
    nInputs,             \* effect runs, calls and events so far
    threw,               \* a state updater threw
    last                 \* the step that led to this state, as the caller saw it

config == <<id, transformerKind, defaultUpdateMethod, onCreated, onUpdated, onDestroyed>>
vars == <<id, transformerKind, defaultUpdateMethod, onCreated, onUpdated, onDestroyed,
          state, loading, eventOverride, fetches, ops, events, nInputs, threw, last>>

NullState == [kind |-> "null", ent |-> NoObj, arr |-> <<>>]
EntState(e) == [kind |-> "entity", ent |-> e, arr |-> <<>>]
ArrState(a) == [kind |-> "array", ent |-> NoObj, arr |-> a]
\* the result of an updater that throws a TypeError
Throw == [kind |-> "throw", ent |-> NoObj, arr |-> <<>>]

StateIds(s) == {Get(s.arr[i], "id") : i \in 1..Len(s.arr)}

RECURSIVE Without(_, _)
\* prev.filter(s => s.id !== delId)
Without(a, delId) ==
    IF a = <<>> THEN <<>>
    ELSE IF Get(Head(a), "id") = delId THEN Without(Tail(a), delId)
         ELSE <<Head(a)>> \o Without(Tail(a), delId)

\* const isArray = input => !id
isArray(cfgId) == ~Truthy(cfgId)

\* ---------------------------------------------------------------- reducers
\* A custom reducer, by name: "keep" returns prev, "clear" returns an empty
\* array, "nullish" returns null or undefined.  No option is set to one in
\* Init; InitCustom sets them.
CustomReducers == {"keep", "clear", "nullish"}

ApplyCustom(handler, prev) ==
    IF handler = "keep" THEN prev
    ELSE IF handler = "clear" THEN ArrState(<<>>)
    ELSE NullState

handle_NoFallback(handler, prev, dflt) ==
    IF handler = Undefined THEN dflt ELSE ApplyCustom(handler, prev)

\* handler?.(item, prev) ?? defaultHandler(item, prev)
handle(handler, prev, dflt) ==
    IF handler = Undefined THEN dflt
    ELSE IF ApplyCustom(handler, prev).kind = "null" THEN dflt
    ELSE ApplyCustom(handler, prev)

defaultCreated_AlwaysAppend(item, prev) ==
    IF prev.kind # "array" THEN Throw ELSE ArrState(Append(prev.arr, item))

defaultCreated_Prepend(item, prev) ==
    IF prev.kind # "array" THEN Throw
    ELSE IF \E i \in 1..Len(prev.arr) : Get(prev.arr[i], "id") = Get(item, "id")
         THEN prev
         ELSE ArrState(<<item>> \o prev.arr)

\* (item, prev) => prev.find(s => s.id === item.id) ? prev : [...prev, item]
defaultCreated(item, prev) ==
    IF prev.kind # "array" THEN Throw
    ELSE IF \E i \in 1..Len(prev.arr) : Get(prev.arr[i], "id") = Get(item, "id")
         THEN prev
         ELSE ArrState(Append(prev.arr, item))

\* (item, prev) => isArray(prev)
\*     ? prev.map(s => s.id === item.id ? Object.assign(s, item) : s)
\*     : Object.assign(prev, item)
defaultUpdated(cfgId, item, prev) ==
    IF isArray(cfgId)
    THEN IF prev.kind # "array" THEN Throw
         ELSE ArrState([i \in 1..Len(prev.arr) |->
                  IF Get(prev.arr[i], "id") = Get(item, "id")
                  THEN ObjectAssign(prev.arr[i], item)
                  ELSE prev.arr[i]])
    ELSE IF prev.kind # "entity" THEN Throw
         ELSE EntState(ObjectAssign(prev.ent, item))

handleCreated(item, prev) == handle(onCreated, prev, defaultCreated(item, prev))

handleUpdated(item, prev) == handle(onUpdated, prev, defaultUpdated(id, item, prev))

handleDestroyed(delId, prev) ==
    IF Truthy(id) THEN NullState
    ELSE handle(onDestroyed, prev,
                IF prev.kind # "array" THEN Throw ELSE ArrState(Without(prev.arr, delId)))

\* setState(prev => r)
Commit(r) ==
    IF r.kind = "throw"
    THEN state' = state /\ threw' = TRUE
    ELSE state' = r /\ threw' = threw

\* ------------------------------------------------------------------ inputs
\* a name as the caller writes it (application shape)
AppName(v) == IF transformerKind = "custom" THEN Up(v) ELSE v

\* what callers pass to store and update
StoreInputs == {Obj(Absent, AppName("b"), Undefined)}
UpdateInputs == {Obj(Absent, AppName("b"), Undefined)}
MethodOverrides == UpdateMethods \cup {Undefined}

\* what the server sends (wire shape)
E1 == Obj("1", "a", "5")
E2 == Obj("2", "a", "5")
IndexResponses == {<<E1>>, <<E1, E2>>}
Headers == {Undefined, "alt"}
CreatedPayloads == {Obj(i, "b", "5") : i \in Ids}
UpdatedPayloads == {Obj(i, "b", Absent) : i \in Ids}

\* the entity the server answers a store or an update with: the fields it
\* was sent, its own values for the rest
ServerEntity(i, body) ==
    Obj(i, IF Truthy(body["name"]) THEN body["name"] ELSE "a",
           IF Truthy(body["age"]) THEN body["age"] ELSE "5")

\* -------------------------------------------------------------- bookkeeping
\* act: the action; op: the operation or event kind it belongs to; method and
\* override: the call's update method and the eventOverride its closure holds;
\* item: the payload handled; body: the request body sent; reqs: requests the
\* call has issued; settled: whether the call's promise settled in this step;
\* changed: whether the step changed the state; n: which fetch the step
\* belongs to (0: none)
Step(act, op, method, override, item, body, reqs, settled, chg) ==
    [act |-> act, op |-> op, method |-> method, override |-> override, item |-> item,
     body |-> body, reqs |-> reqs, settled |-> settled, changed |-> chg, n |-> 0]

\* a fetch the effect has started; pc is "get" while the request is out,
\* "transform" between the response and setState, then "done", or "failed"
Fetch(n, pc, header, data) == [n |-> n, pc |-> pc, header |-> header, data |-> data]

InFlight(f) == f.pc \in {"get", "transform"}

Op(n, op, pc, method, override, target, item, reqs) ==
    [n |-> n, op |-> op, pc |-> pc, method |-> method, override |-> override,
     id |-> target, item |-> item, reqs |-> reqs]

\* ---------------------------------------------------------------------- Init
Init ==
    /\ id \in {Undefined, Zero, EmptyStr, "1"}
    /\ transformerKind \in {"default", "custom"}
    /\ defaultUpdateMethod \in {"on-success", "local-only"}
    /\ onCreated = Undefined
    /\ onUpdated = Undefined
    /\ onDestroyed = Undefined
    /\ state = IF id = Undefined THEN ArrState(<<>>) ELSE NullState
    /\ loading = TRUE
    /\ eventOverride = Null
    /\ fetches = {}
    /\ ops = {}
    /\ events = <<>>
    /\ nInputs = 0
    /\ threw = FALSE
    /\ last = Step("mount", "fetch", "none", Null, NoObj, NoObj, 0, "no", FALSE)

\* -------------------------------------------------------------- initial fetch
\* Between the response and setState the callback awaits the transformer.  The
\* default transformer returns at once: the await is over before anything else
\* the event loop dispatches (a call, an event, a response, an effect) can run.
\* A custom transformer may take any time.
Dispatchable ==
    /\ ~threw
    /\ transformerKind = "default" => \A f \in fetches : f.pc # "transform"

\* the effect runs: after the first render, and again when resource, id or the
\* transformer's identity changes.  The fetches in flight are left running.
Effect ==
    /\ Dispatchable
    /\ nInputs < MaxInputs
    /\ nInputs' = nInputs + 1
    /\ loading' = TRUE
    /\ fetches' = fetches \cup {Fetch(nInputs + 1, "get", Null, NullState)}
    /\ last' = [Step("Effect", "fetch", "none", eventOverride, NoObj, NoObj, 1, "no", FALSE)
                   EXCEPT !.n = nInputs + 1]
    /\ UNCHANGED <<config, state, eventOverride, ops, events, threw>>

\* response.data after the transformer, as setState receives it
Fetched(data) ==
    IF Truthy(id)
    THEN EntState(transformer(transformerKind, data.ent))
    ELSE ArrState([i \in 1..Len(data.arr) |-> transformer(transformerKind, data.arr[i])])

\* what the server answers the get with: show when id is truthy, else index
FetchResponses ==
    IF Truthy(id) THEN {EntState(Obj(id, "a", "5"))}
    ELSE {ArrState(a) : a \in IndexResponses}

\* .then(async response => { setEventOverride(...); ... await transformer ...
FetchResolve(f) ==
    /\ Dispatchable
    /\ f.pc = "get"
    /\ \E header \in Headers, data \in FetchResponses :
         /\ eventOverride' = Coalesce(header, Null)
         /\ fetches' = (fetches \ {f})
                          \cup {Fetch(f.n, "transform", Coalesce(header, Null), Fetched(data))}
         /\ last' = [Step("FetchResolve", "fetch", "none", Coalesce(header, Null), NoObj, NoObj,
                          1, "no", FALSE) EXCEPT !.n = f.n]
    /\ UNCHANGED <<config, state, loading, nInputs, ops, events, threw>>

publishes_OnlyLatest(f) == \A g \in fetches : g.n <= f.n

\* the callback of every response publishes: no test that the fetch is still
\* the latest one
publishes(f) == TRUE

\* ... setState(transformed); setLoading(false) })
FetchPublish(f) ==
    /\ ~threw
    /\ f.pc = "transform"
    /\ state' = IF publishes(f) THEN f.data ELSE state
    /\ loading' = FALSE
    /\ fetches' = (fetches \ {f}) \cup {Fetch(f.n, "done", f.header, NullState)}
    /\ last' = [Step("FetchPublish", "fetch", "none", eventOverride, NoObj, NoObj, 1,
                     "resolved", state' # state) EXCEPT !.n = f.n]
    /\ UNCHANGED <<config, eventOverride, nInputs, ops, events, threw>>

failedLoading_Cleared(l) == FALSE

\* the loading flag after the get rejects: there is no catch and no finally
failedLoading(l) == l

\* the get rejects: the then-callback never runs
FetchFail(f) ==
    /\ Dispatchable
    /\ f.pc = "get"
    /\ fetches' = (fetches \ {f}) \cup {[f EXCEPT !.pc = "failed"]}
    /\ loading' = failedLoading(loading)
    /\ last' = [Step("FetchFail", "fetch", "none", eventOverride, NoObj, NoObj, 1,
                     "rejected", FALSE) EXCEPT !.n = f.n]
    /\ UNCHANGED <<config, state, eventOverride, nInputs, ops, events, threw>>

\* --------------------------------------------------------------- operations
storeApplies_Always(override) == TRUE

\* store: if (!eventOverride)
storeApplies(override) == ~Truthy(override)

updateApplies_Always(override) == TRUE

\* updateList, on-success: if (!eventOverride)
updateApplies(override) == ~Truthy(override)

destroyApplies_OverrideOnly(override, method) == ~Truthy(override)

\* destroyList: if (!eventOverride || updateMethod !== "on-success")
destroyApplies(override, method) == ~Truthy(override) \/ method # "on-success"

updateSends_Always(method) == TRUE

\* updateList: the on-success branch puts; the other branch puts when immediate
updateSends(method) == method = "on-success" \/ method = "immediate"

\* destroyList: updateMethod !== "local-only" && axios.delete(...)
destroySends(method) == method # "local-only"

\* store: axios.post(route, await inverseTransformer(item))
storeBody(item) == inverseTransformer(transformerKind, item)

\* updateList: axios.put(route, filter(await inverseTransformer(update)))
updateBody(item) == filter(inverseTransformer(transformerKind, item))

\* filter(await transformer(x)): what the created and updated reducers receive
Inbound(item) == filter(transformer(transformerKind, item))

\* return [state, id ? {loading, update: updateSingle, destroy: destroySingle}
\*                     : {loading, store, update: updateList, destroy: destroyList}]
ReturnedOps == IF Truthy(id) THEN "single" ELSE "list"

\* the ids a caller can name: any through updateList / destroyList, the bound
\* id through updateSingle / destroySingle
Targets == IF ReturnedOps = "single" THEN {id} ELSE Ids

\* store(item): the call, up to the await of the inverse transformer
Store(item) ==
    /\ Dispatchable
    /\ ReturnedOps = "list"
    /\ nInputs < MaxInputs
    /\ nInputs' = nInputs + 1
    /\ ops' = ops \cup {Op(nInputs + 1, "store", "inverse", "none", eventOverride, Undefined, item, 0)}
    /\ last' = Step("Store", "store", "none", eventOverride, item, NoObj, 0, "no", FALSE)
    /\ UNCHANGED <<config, state, loading, eventOverride, fetches, events, threw>>

\* update(id, update, method) / update(update, method): the synchronous part
Update(target, update, methodOverride) ==
    LET method == Coalesce(methodOverride, defaultUpdateMethod)
        spread == SpreadWithId(target, update)
        next == IF method = "on-success" THEN state ELSE handleUpdated(spread, state)
    IN /\ Dispatchable
       /\ nInputs < MaxInputs
       /\ target \in Targets
       /\ nInputs' = nInputs + 1
       /\ Commit(next)
       /\ ops' = IF updateSends(method)
                 THEN ops \cup {Op(nInputs + 1, "update", "inverse", method, eventOverride, target, update, 0)}
                 ELSE ops
       /\ last' = Step("Update", "update", method, eventOverride,
                       IF method = "on-success" THEN update ELSE spread, NoObj, 0,
                       IF updateSends(method) THEN "no" ELSE "resolved",
                       next.kind # "throw" /\ next # state)
       /\ UNCHANGED <<config, loading, eventOverride, fetches, events>>

\* the inverse transformer has returned: the request goes out
SendRequest(o) ==
    LET body == IF o.op = "store" THEN storeBody(o.item) ELSE updateBody(o.item)
    IN /\ Dispatchable
       /\ o.pc = "inverse"
       /\ ops' = (ops \ {o}) \cup {[o EXCEPT !.pc = "request", !.reqs = o.reqs + 1]}
       /\ last' = Step("SendRequest", o.op, o.method, o.override, o.item, body, o.reqs + 1, "no", FALSE)
       /\ UNCHANGED <<config, state, loading, eventOverride, fetches, nInputs, events, threw>>

\* destroy(id, method) / destroy(method): the synchronous part
Destroy(target, methodOverride) ==
    LET method == Coalesce(methodOverride, defaultUpdateMethod)
        reqs == IF destroySends(method) THEN 1 ELSE 0
        now == method = "immediate"
        next == IF now /\ destroyApplies(eventOverride, method)
                THEN handleDestroyed(target, state) ELSE state
    IN /\ Dispatchable
       /\ nInputs < MaxInputs
       /\ target \in Targets
       /\ nInputs' = nInputs + 1
       /\ Commit(next)
       /\ ops' = IF now THEN ops
                 ELSE ops \cup {Op(nInputs + 1, "destroy", IF destroySends(method) THEN "request" ELSE "tick",
                                   method, eventOverride, target, NoObj, reqs)}
       /\ last' = Step("Destroy", "destroy", method, eventOverride, Obj(target, Absent, Absent),
                       NoObj, reqs, IF now THEN "resolved" ELSE "no",
                       next.kind # "throw" /\ next # state)
       /\ UNCHANGED <<config, loading, eventOverride, fetches, events>>

\* the rest of a call once its awaited request has succeeded: the response, the
\* transformer and the reducer.  Nothing of the binding is read or written
\* between the response and the reducer, so they are one step.
Resolve(o) ==
    /\ Dispatchable
    /\ o.pc = "request"
    /\ \E i \in Ids :
         LET resp == IF o.op = "store" THEN ServerEntity(i, storeBody(o.item))
                     ELSE ServerEntity(o.id, updateBody(o.item))
             item == IF o.op = "destroy" THEN Obj(o.id, Absent, Absent) ELSE Inbound(resp)
             next == IF o.op = "store"
                     THEN IF storeApplies(o.override) THEN handleCreated(item, state) ELSE state
                     ELSE IF o.op = "update"
                     THEN IF o.method = "on-success" /\ updateApplies(o.override)
                          THEN handleUpdated(item, state) ELSE state
                     ELSE IF destroyApplies(o.override, o.method)
                          THEN handleDestroyed(o.id, state) ELSE state
         IN /\ o.op # "store" => i = o.id
            /\ Commit(next)
            /\ last' = Step("Resolve", o.op, o.method, o.override, item, NoObj, o.reqs,
                            "resolved", next.kind # "throw" /\ next # state)
    /\ ops' = ops \ {o}
    /\ UNCHANGED <<config, loading, eventOverride, fetches, nInputs, events>>

\* destroy with local-only: await false, then the removal
Resume(o) ==
    LET next == IF destroyApplies(o.override, o.method)
                THEN handleDestroyed(o.id, state) ELSE state
    IN /\ ~threw
       /\ o.pc = "tick"
       /\ Commit(next)
       /\ ops' = ops \ {o}
       /\ last' = Step("Resume", o.op, o.method, o.override, Obj(o.id, Absent, Absent), NoObj,
                       o.reqs, "resolved", next.kind # "throw" /\ next # state)
       /\ UNCHANGED <<config, loading, eventOverride, fetches, nInputs, events>>

Failed_RemovesAnyway(o, prev) ==
    IF o.op = "destroy" THEN handleDestroyed(o.id, prev) ELSE prev

\* the state after the awaited request of a call rejects: the await throws out
\* of the async function, nothing catches it and nothing is restored
Failed(o, prev) == prev

\* the awaited request fails: the call rejects
Reject(o) ==
    LET next == Failed(o, state)
    IN /\ Dispatchable
       /\ o.pc = "request"
       /\ Commit(next)
       /\ ops' = ops \ {o}
       /\ last' = Step("Reject", o.op, o.method, o.override, o.item, NoObj, o.reqs, "rejected",
                       next.kind # "throw" /\ next # state)
       /\ UNCHANGED <<config, loading, eventOverride, fetches, nInputs, events>>

\* ------------------------------------------------------------------- events
RemoveAt(q, i) == SubSeq(q, 1, i - 1) \o SubSeq(q, i + 1, Len(q))

\* a created or updated event arrives: its handler awaits the transformer.
\* The created subscription is off when id is truthy (!id && ...).
EventArrive(chan, item) ==
    /\ Dispatchable
    /\ nInputs < MaxInputs
    /\ chan = "created" => ~Truthy(id)
    /\ nInputs' = nInputs + 1
    /\ events' = Append(events, [chan |-> chan, item |-> item])
    /\ last' = Step("EventArrive", chan, "none", eventOverride, item, NoObj, 0, "no", FALSE)
    /\ UNCHANGED <<config, state, loading, eventOverride, fetches, ops, threw>>

\* the transformer has returned: handleCreated / handleUpdated.  The default
\* transformer is synchronous, so its handlers resume in arrival order; a
\* custom one may take any time.
EventApply(i) ==
    LET ev == events[i]
        item == Inbound(ev.item)
        next == IF ev.chan = "created" THEN handleCreated(item, state)
                ELSE handleUpdated(item, state)
    IN /\ ~threw
       /\ i \in 1..Len(events)
       /\ transformerKind = "default" => i = 1
       /\ Commit(next)
       /\ events' = RemoveAt(events, i)
       /\ last' = Step("EventApply", ev.chan, "none", eventOverride, ev.item, NoObj, 0, "no",
                       next.kind # "throw" /\ next # state)
       /\ UNCHANGED <<config, loading, eventOverride, fetches, nInputs, ops>>

\* a destroyed event: handleDestroyed is the handler itself, nothing is awaited
EventDestroyed(delId) ==
    LET next == handleDestroyed(delId, state)
    IN /\ Dispatchable
       /\ nInputs < MaxInputs
       /\ nInputs' = nInputs + 1
       /\ Commit(next)
       /\ last' = Step("EventDestroyed", "destroyed", "none", eventOverride,
                       Obj(delId, Absent, Absent), NoObj, 0, "no",
                       next.kind # "throw" /\ next # state)
       /\ UNCHANGED <<config, loading, eventOverride, fetches, ops, events>>

\* --------------------------------------------------------------------- Next
Next ==
    \/ Effect
    \/ \E f \in fetches : FetchResolve(f)
    \/ \E f \in fetches : FetchPublish(f)
    \/ \E f \in fetches : FetchFail(f)
    \/ \E item \in StoreInputs : Store(item)
    \/ \E t \in Targets, u \in UpdateInputs, m \in MethodOverrides : Update(t, u, m)
    \/ \E t \in Targets, m \in MethodOverrides : Destroy(t, m)
    \/ \E o \in ops : SendRequest(o)
    \/ \E o \in ops : Resolve(o)
    \/ \E o \in ops : Resume(o)
    \/ \E o \in ops : Reject(o)
    \/ \E item \in CreatedPayloads : EventArrive("created", item)
    \/ \E item \in UpdatedPayloads : EventArrive("updated", item)
    \/ \E i \in 1..Len(events) : EventApply(i)
    \/ \E d \in Ids : EventDestroyed(d)

Spec == Init /\ [][Next]_vars

\* the hook with onCreated, onUpdated and onDestroyed set, for a collection
\* and for a single entity (whose reducers return no array)
InitCustom ==
    /\ id \in {Undefined, "1"}
    /\ transformerKind = "default"
    /\ defaultUpdateMethod \in {"on-success", "local-only"}
    /\ \E h \in CustomReducers :
          /\ id # Undefined => h # "clear"
          /\ onCreated = h /\ onUpdated = h /\ onDestroyed = h
    /\ state = IF id = Undefined THEN ArrState(<<>>) ELSE NullState
    /\ loading = TRUE
    /\ eventOverride = Null
    /\ fetches = {}
    /\ ops = {}
    /\ events = <<>>
    /\ nInputs = 0
    /\ threw = FALSE
    /\ last = Step("mount", "fetch", "none", Null, NoObj, NoObj, 0, "no", FALSE)

SpecCustom == InitCustom /\ [][Next]_vars

\* ------------------------------------------------------------------ claims
\* the state after setState(prev => r): unchanged when the updater throws
After(r, prev) == IF r.kind = "throw" THEN prev ELSE r

\* C1: in collection mode no step of a store call whose closure holds an
\* event-channel override changes the state; a store call without one, once
\* it resolves, leaves an entity with the response's id in the collection, and
\* when that id was not there before it is the transformed response, at the end.
C1_StoreInsertsUnlessOverride ==
    [][(id = Undefined /\ last'.op = "store") =>
          /\ Truthy(last'.override) => state' = state
          /\ (~Truthy(last'.override) /\ last'.act = "Resolve") =>
                /\ Get(last'.item, "id") \in StateIds(state')
                /\ Get(last'.item, "id") \notin StateIds(state) =>
                       state'.arr = Append(state.arr, last'.item)]_vars

\* a store resolved under an override and the entity it created is not in the
\* collection
C1_Witness ==
    /\ id = Undefined
    /\ last.op = "store" /\ last.act = "Resolve"
    /\ Truthy(last.override)
    /\ Get(last.item, "id") \notin StateIds(state)

\* C2: with the default created reducer, a created event whose id is in the
\* collection leaves it unchanged; one whose id is not appends exactly the
\* transformed entity at the end.
C2_CreatedIdempotent ==
    [][(state.kind = "array" /\ last'.act = "EventApply" /\ last'.op = "created") =>
          IF Get(last'.item, "id") \in StateIds(state)
          THEN state' = state
          ELSE /\ state'.kind = "array"
               /\ Len(state'.arr) = Len(state.arr) + 1
               /\ \A i \in 1..Len(state.arr) : state'.arr[i] = state.arr[i]
               /\ state'.arr[Len(state'.arr)] = Inbound(last'.item)]_vars

\* a created event for an id already present was applied and changed nothing
C2_Witness ==
    /\ last.act = "EventApply" /\ last.op = "created"
    /\ state.kind = "array"
    /\ Get(last.item, "id") \in StateIds(state)
    /\ ~last.changed

\* C3: with the default updated reducer, an updated event with payload P keeps
\* the length and order of the collection, leaves every entity whose id is not
\* P.id as it was, and in the entity whose id is P.id leaves every field P does
\* not name as it was and sets every field P names to its transformed value.
C3_UpdatedMergesOnlyNamedFields ==
    [][(state.kind = "array" /\ last'.act = "EventApply" /\ last'.op = "updated") =>
          /\ state'.kind = "array"
          /\ Len(state'.arr) = Len(state.arr)
          /\ \A i \in 1..Len(state.arr) :
                IF Get(state.arr[i], "id") = Get(last'.item, "id")
                THEN \A f \in Fields :
                        IF last'.item[f] = Absent
                        THEN state'.arr[i][f] = state.arr[i][f]
                        ELSE state'.arr[i][f] = transformer(transformerKind, last'.item)[f]
                ELSE state'.arr[i] = state.arr[i]]_vars

\* an updated event changed one entity of a collection of two
C3_Witness ==
    /\ last.act = "EventApply" /\ last.op = "updated"
    /\ state.kind = "array" /\ Len(state.arr) = 2
    /\ last.changed

\* C4: a binding configured with an id (0 and the empty string included) has
\* a state that is null or a single entity, never a sequence; one configured
\* without an id has a state that is a sequence.
C4_ModeExclusivity ==
    IF id # Undefined
    THEN state.kind \in {"null", "entity"}
    ELSE state.kind = "array"

\* C5: no two entities of a collection state have the same id.
C5_UniqueIds ==
    state.kind = "array" =>
        \A i, j \in 1..Len(state.arr) :
            i # j => Get(state.arr[i], "id") # Get(state.arr[j], "id")

\* a store without override resolved with an id the collection already held
C5_Witness ==
    /\ state.kind = "array"
    /\ last.op = "store" /\ last.act = "Resolve" /\ ~Truthy(last.override)
    /\ ~last.changed
    /\ Get(last.item, "id") \in StateIds(state)

\* C6: bound to a (truthy) id X, the state is null or an entity whose id is X.
C6_SingularKeepsId ==
    Truthy(id) =>
        \/ state.kind = "null"
        \/ state.kind = "entity" /\ Get(state.ent, "id") = id

\* C7 as claimed: an on-success update that completes always applies the
\* updated reducer to the transformed response.
C7_UpdateAlwaysApplies ==
    [][(last'.act = "Resolve" /\ last'.op = "update" /\ last'.method = "on-success") =>
          state' = After(handleUpdated(last'.item, state), state)]_vars

\* C7 as amended: an on-success update that completes applies the updated
\* reducer to the transformed response exactly when its closure holds no
\* event-channel override; under an override the state is left as it was.
C7_UpdateAppliesUnlessOverride ==
    [][(last'.act = "Resolve" /\ last'.op = "update" /\ last'.method = "on-success") =>
          state' = IF Truthy(last'.override) THEN state
                   ELSE After(handleUpdated(last'.item, state), state)]_vars

\* an on-success update resolved under an override and the state lacks the
\* change the reducer would have made
C7_Witness ==
    /\ last.act = "Resolve" /\ last.op = "update" /\ last.method = "on-success"
    /\ Truthy(last.override)
    /\ After(handleUpdated(last.item, state), state) # state

\* C8: the body of every request store or update sends is the
\* inverse-transformed input without its undefined-valued fields.
C8_NoUndefinedOnWire ==
    last.act = "SendRequest" =>
        \A f \in Fields :
            /\ last.body[f] # Undefined
            /\ last.body[f] = IF inverseTransformer(transformerKind, last.item)[f] = Undefined
                              THEN Absent
                              ELSE inverseTransformer(transformerKind, last.item)[f]

\* C9: an update or destroy with local-only issues no request and applies the
\* updated reducer / the removal when it completes; with another method the
\* call has issued exactly one request when it settles, and never more.
C9_LocalOnlySendsNothing ==
    [][(last'.op \in {"update", "destroy"}) =>
          /\ last'.reqs <= 1
          /\ last'.method = "local-only" => last'.reqs = 0
          /\ (last'.method # "local-only" /\ last'.settled # "no") => last'.reqs = 1
          /\ (last'.method = "local-only" /\ last'.settled = "resolved") =>
                state' = After(IF last'.op = "update"
                               THEN handleUpdated(last'.item, state)
                               ELSE handleDestroyed(Get(last'.item, "id"), state), state)]_vars

\* a local-only update of a loaded single entity completed: the state changed
\* and no request went out
C9_Witness ==
    /\ Truthy(id)
    /\ last.op = "update" /\ last.method = "local-only" /\ last.settled = "resolved"
    /\ last.changed
    /\ last.reqs = 0

\* C10: the step in which a destroy call completes applies the removal unless
\* its closure holds an override and its method is on-success, and then it
\* leaves the state as it was; no earlier step of the call changes the state.
C10_DestroyAppliesUnlessOverrideOnSuccess ==
    [][(last'.op = "destroy") =>
          state' = IF last'.settled # "resolved"
                      \/ (Truthy(last'.override) /\ last'.method = "on-success")
                   THEN state
                   ELSE After(handleDestroyed(Get(last'.item, "id"), state), state)]_vars

\* an on-success destroy resolved under an override and the entity is still in
\* the collection
C10_Witness ==
    /\ last.op = "destroy" /\ last.settled = "resolved"
    /\ last.method = "on-success" /\ Truthy(last.override)
    /\ Get(last.item, "id") \in StateIds(state)

\* C11: whenever an initial fetch is in flight (its request is out, or its
\* response is being transformed) the loading flag is true, also when an
\* earlier fetch resolves while a later one is still in flight.
C11_LoadingWhileInFlight ==
    (\E f \in fetches : InFlight(f)) => loading = TRUE

\* C12: a call whose awaited request fails rejects in that step and the step
\* leaves the state as it is (an optimistic change is not taken back); the
\* calls that await a request are store, update with on-success or immediate,
\* and destroy with on-success; no step of a store or on-success call changes
\* the state before the call resolves.
C12_FailureRejectsWithoutRollback ==
    [][/\ last'.act = "Reject" => (last'.settled = "rejected" /\ state' = state)
       /\ \A o \in ops : o.pc = "request" =>
             \/ o.op = "store"
             \/ o.op = "update" /\ o.method \in {"on-success", "immediate"}
             \/ o.op = "destroy" /\ o.method = "on-success"
       /\ (/\ last'.op \in {"store", "update", "destroy"}
           /\ (last'.op = "store" \/ last'.method = "on-success")
           /\ last'.settled # "resolved") => state' = state]_vars

\* an immediate update of a loaded single entity was rejected and the name it
\* wrote at the call is still in the state
C12_Witness ==
    /\ Truthy(id)
    /\ last.act = "Reject" /\ last.op = "update" /\ last.method = "immediate"
    /\ last.settled = "rejected"
    /\ state.kind = "entity"
    /\ Get(state.ent, "name") = AppName("b")

\* C13: the reducer of a created or updated event runs only when no event that
\* arrived before it on the same channel is still waiting for its transformer.
C13_ArrivalOrder ==
    [][(last'.act = "EventApply" /\ ~threw') =>
          \E i \in 1..Len(events) :
             /\ events' = RemoveAt(events, i)
             /\ events[i].chan = last'.op
             /\ events[i].item = last'.item
             /\ \A j \in 1..(i - 1) : events[j].chan # events[i].chan]_vars

\* C14: no call and no event runs between the step that sets the override of a
\* response and the step that publishes the state of that response.
C14_AtomicPublish ==
    (\E f \in fetches : f.pc = "transform") => last.op = "fetch"

\* C15: a run of the effect leaves every fetch in flight running; the response
\* of every fetch, the latest or not, sets the override from its header and
\* then sets the state to its transformed data.
C15_StaleFetchPublishes ==
    [][/\ last'.act = "Effect" => fetches \subseteq fetches'
       /\ \A f \in fetches :
             /\ (last'.act = "FetchResolve" /\ last'.n = f.n) =>
                   \E g \in fetches' : /\ g.n = f.n
                                        /\ g.pc = "transform"
                                        /\ eventOverride' = g.header
             /\ (last'.act = "FetchPublish" /\ last'.n = f.n) =>
                   (state' = f.data /\ eventOverride' = eventOverride)]_vars

\* the response of an older fetch was handled after the response of a newer
\* one: its publish changed the state, and the override is the older one's
C15_Witness ==
    \E f1, f2 \in fetches :
       /\ f1.n < f2.n
       /\ f1.pc = "done" /\ f2.pc = "done"
       /\ last.act = "FetchPublish" /\ last.n = f1.n
       /\ last.changed
       /\ f1.header # f2.header
       /\ eventOverride = f1.header

\* C16: the step in which update or destroy is called with immediate or
\* local-only already applies the local change.
C16_LocalChangeAtCall ==
    [][(last'.act \in {"Update", "Destroy"} /\ last'.method \in {"immediate", "local-only"}) =>
          state' = After(IF last'.act = "Update"
                         THEN handleUpdated(last'.item, state)
                         ELSE handleDestroyed(Get(last'.item, "id"), state), state)]_vars

\* C17: no immediate update is still pending while its request awaits the
\* response.
C17_ImmediateUpdateDoesNotWait ==
    \A o \in ops : ~(o.op = "update" /\ o.method = "immediate" /\ o.pc = "request")

\* the reducer option of an event kind
ReducerOf(kind) ==
    IF kind = "created" THEN onCreated
    ELSE IF kind = "updated" THEN onUpdated
    ELSE onDestroyed

\* what the default reducer of an event kind returns for a payload
DefaultOf(kind, payload, prev) ==
    IF kind = "created" THEN defaultCreated(Inbound(payload), prev)
    ELSE IF kind = "updated" THEN defaultUpdated(id, Inbound(payload), prev)
    ELSE IF prev.kind # "array" THEN Throw
    ELSE ArrState(Without(prev.arr, Get(payload, "id")))

\* C18 as stated: when the reducer option of an event's kind is set (for
\* destroyed: in collection mode), the state after the event is the value the
\* custom reducer returns, null or undefined included.
C18_CustomAlwaysWins ==
    [][(/\ last'.act = "EventApply" \/ (last'.act = "EventDestroyed" /\ ~Truthy(id))
        /\ ReducerOf(last'.op) # Undefined) =>
          state' = ApplyCustom(ReducerOf(last'.op), state)]_vars

\* C18: when the reducer option of an event's kind is set (for destroyed: in
\* collection mode), the state after the event is the value the custom reducer
\* returns unless that value is null or undefined, and then it is what the
\* default reducer returns.
C18_CustomWinsUnlessNullish ==
    [][(/\ last'.act = "EventApply" \/ (last'.act = "EventDestroyed" /\ ~Truthy(id))
        /\ ReducerOf(last'.op) # Undefined) =>
          state' = IF ApplyCustom(ReducerOf(last'.op), state).kind = "null"
                   THEN After(DefaultOf(last'.op, last'.item, state), state)
                   ELSE ApplyCustom(ReducerOf(last'.op), state)]_vars

\* a created event for an id that is not in a loaded collection was handled by
\* a custom reducer that returns an empty array: the collection is empty
C18_Witness ==
    /\ onCreated = "clear"
    /\ last.act = "EventApply" /\ last.op = "created"
    /\ last.changed
    /\ state = ArrState(<<>>)

\* C19: in collection mode with the default reducers, when the created event
\* of an id is applied right after a destroyed event of that id that arrived
\* while the created event was waiting for its transformer, the id is not in
\* the collection.
C19_DestroyAfterCreateWins ==
    [][(/\ id = Undefined
        /\ last.act = "EventDestroyed"
        /\ last'.act = "EventApply" /\ last'.op = "created"
        /\ Get(last'.item, "id") = Get(last.item, "id")) =>
          Get(last.item, "id") \notin StateIds(state')]_vars

\* C20: a failed get leaves state, override and loading as they are; loading
\* goes from true to false only when a fetch publishes; while no fetch has
\* resolved, loading is true, the override is null, and the state is the
\* initial one if nothing but fetches has happened.
C20_FailedFetchKeepsLoading ==
    [][/\ last'.act = "FetchFail" =>
             (state' = state /\ eventOverride' = eventOverride /\ loading' = loading)
       /\ (loading /\ ~loading') => last'.act = "FetchPublish"
       /\ (\A f \in fetches' : f.pc \in {"get", "failed"}) =>
             /\ loading' = TRUE
             /\ eventOverride' = Null
             /\ Cardinality(fetches') = nInputs' =>
                   state' = IF id = Undefined THEN ArrState(<<>>) ELSE NullState]_vars

\* the only fetch so far has failed: loading is still true, the state and the
\* override are the initial ones
C20_Witness ==
    /\ last.act = "FetchFail"
    /\ fetches # {}
    /\ \A f \in fetches : f.pc = "failed"
    /\ loading = TRUE
    /\ eventOverride = Null
    /\ state = IF id = Undefined THEN ArrState(<<>>) ELSE NullState

====
